---- MODULE Spec2Model ----
(***************************************************************************)
(* Model of the remote worker of src/worker.py (start_worker,              *)
(* discover_master_url, get_master_config, send_heartbeat) and of the      *)
(* batch processor of src/shared_logic.py (process_batch, with the         *)
(* classifier _is_mask_valid / find_speech_balloons and the annotation     *)
(* block).                                                                 *)
(*                                                                         *)
(* Spec is the worker; BatchSpec is the batch processor at work on one     *)
(* image, with the image, the thresholds and the masks drawn from bounded  *)
(* sets.                                                                   *)
(*                                                                         *)
(* Two threads: the control loop (start_worker, the main thread) and the   *)
(* daemon heartbeat thread (send_heartbeat).  The coordinator and the      *)
(* discovery server are the environment: every response they can give is  *)
(* drawn with \E from a small set.  Status strings are written without     *)
(* diacritics.                                                             *)
(***************************************************************************)
EXTENDS Integers, Sequences, FiniteSets, TLC

VARIABLES
    pc,                     \* position of the control loop (start_worker)
    worker_id,              \* worker.py:20
    worker_status,          \* worker.py:21, the shared status global
    worker_config,          \* worker.py:22, the shared configuration global
    master_url,             \* local of start_worker, worker.py:90
    attempt,                \* loop variable of discover_master_url, worker.py:49
    sam_model,              \* local of start_worker, worker.py:105
    response,               \* outcome of the last get_batch_jobs call, worker.py:119
    job_list,               \* worker.py:129
    status,                 \* worker.py:130
    jobIdx,                 \* position of "for job in job_list", worker.py:136
    results_to_submit,      \* worker.py:133
    submitAttempt,          \* loop variable of "for attempt in range(3)", worker.py:162
    submitted_successfully, \* worker.py:161
    delay,                  \* which delay the current time.sleep of the loop uses
    hbpc,                   \* position of the heartbeat thread (send_heartbeat)
    hbUrl,                  \* argument master_url of send_heartbeat
    hbPayload,              \* local payload of send_heartbeat, worker.py:31
    lastReq,                \* history: last request issued by the control loop
    nConfig,                \* history: number of get-config requests
    nModelLoad,             \* history: number of initialize_model calls
    bpc,                    \* position of process_batch within one image
    image_shape,            \* image_original.shape, shared_logic.py:119
    batch_config,           \* argument worker_config of process_batch
    masks,                  \* shared_logic.py:105, what the segmentation returned
    verdicts,               \* history: what _is_mask_valid returned for each mask
    detected_balloons,      \* shared_logic.py:106
    annotation_text         \* shared_logic.py:117, the lines of the block

vars == << pc, worker_id, worker_status, worker_config, master_url, attempt,
           sam_model, response, job_list, status, jobIdx, results_to_submit,
           submitAttempt, submitted_successfully, delay, hbpc, hbUrl, hbPayload,
           lastReq, nConfig, nModelLoad, bpc, image_shape, batch_config, masks,
           verdicts, detected_balloons, annotation_text >>

\* The variables only the control loop touches.
loopVars == << pc, worker_id, worker_status, worker_config, master_url, attempt,
               sam_model, response, job_list, status, jobIdx, results_to_submit,
               submitAttempt, submitted_successfully, delay, lastReq, nConfig,
               nModelLoad >>

\* The variables of the heartbeat thread.
hbVars == << hbpc, hbUrl, hbPayload >>

\* The variables of the batch processor at work on one image.
batchVars == << bpc, image_shape, batch_config, masks, verdicts,
                detected_balloons, annotation_text >>

-----------------------------------------------------------------------------
(* Bounds and program constants *)

\* Largest number of jobs the coordinator puts in one response.
MaxJobs == 2

\* range(5) of discover_master_url.
DiscoveryAttempts == 5

\* range(3) of the submission loop.
SubmitAttempts == 3

\* response.status_code == 426.
VersionGateCode == 426

-----------------------------------------------------------------------------
(* Values *)

\* worker_status values, worker.py:21,97,107,115,123,138,180,184,191,197.
StInit      == "Inicializando"
StConfigErr == "Falha (Config)"
StModelErr  == "Falha (Modelo)"
StIdle      == "Ocioso"
StOutdated  == "Versao Desatualizada"
StDone      == "Concluido"
StPaused    == "Aguardando (Master Pausado)"
StConnErr   == "Erro de Conexao"
StCritical  == "Erro Critico"

\* f"Processando: {job['filename']} (Lote)", worker.py:138.
StProcessing(filename) == "Processando: " \o filename \o " (Lote)"

ErrorStatuses == {StConfigErr, StModelErr, StOutdated, StConnErr, StCritical}

\* Addresses the discovery server may hand out.
Urls == {"urlA", "urlB"}

\* What a job's payload does to the worker:
\*   ok          - decodes and is processed to a result
\*   undecodable - valid base64, but the bytes are no image: a null result
\*   badb64      - base64.b64decode (or a job[...] lookup) raises
\*   segfail     - the segmentation call raises
JobKinds == {"ok", "undecodable", "badb64", "segfail"}

Filename(i) == IF i = 1 THEN "p1.png" ELSE IF i = 2 THEN "p2.png"
               ELSE IF i = 3 THEN "p3.png" ELSE "pN.png"

\* The group (manga) the job at position i belongs to.
Manga(i) == IF i = 1 THEN "mangaA" ELSE "mangaB"

\* The job at position i of a batch.
Job(i, k) == [task_id |-> i, manga_name |-> Manga(i), filename |-> Filename(i), kind |-> k]

\* Every job list of 0..MaxJobs jobs the coordinator can send.
Batches == UNION { { [i \in 1..n |-> Job(i, ks[i])] : ks \in [1..n -> JobKinds] }
                   : n \in 0..MaxJobs }

NoResponse == [code |-> 0, body |-> "none", status |-> "none", jobs |-> << >>]
NoRequest  == [kind |-> "none", url |-> "none"]
NoPayload  == [worker_id |-> "none", status |-> "none"]

-----------------------------------------------------------------------------
(* shared_logic.py: the batch processor *)

NullResult == [bytes |-> "None", text |-> "None"]
JpgResult  == [bytes |-> "jpg", text |-> ""]

\* The loop of process_batch over the decoded images, from index i on.  An
\* image that cv2.imdecode could not decode is None and gives (None, None); the
\* segmentation call is not guarded, so an exception it raises leaves
\* process_batch and the results gathered so far are lost.
RECURSIVE ProcessBatchFrom(_, _, _)
ProcessBatchFrom(images, i, results) ==
    IF i > Len(images) THEN [raised |-> FALSE, results |-> results]
    ELSE IF images[i] = "undecodable"
         THEN ProcessBatchFrom(images, i + 1, Append(results, NullResult))
    ELSE IF images[i] = "segfail"
         THEN [raised |-> TRUE, results |-> << >>]
    ELSE ProcessBatchFrom(images, i + 1, Append(results, JpgResult))

process_batch(images) == ProcessBatchFrom(images, 1, << >>)

\* process_image is imported by worker.py:13 and called at worker.py:145; it
\* is the batch processor applied to one image.
process_image(image) ==
    LET r == process_batch(<< image >>)
    IN  IF r.raised THEN [raised |-> TRUE, result |-> NullResult]
        ELSE [raised |-> FALSE, result |-> r.results[1]]

-----------------------------------------------------------------------------
(* shared_logic.py: the classifier (_is_mask_valid, find_speech_balloons)   *)
(* and the annotation block of process_batch.                               *)
(*                                                                         *)
(* A mask is what numpy and OpenCV measure on it: sum is np.sum(mask_np);   *)
(* x, y, w, h is cv2.boundingRect(mask_np), (0, 0, 0, 0) for a mask without *)
(* pixels; mean is cv2.mean(img_gray, mask=mask_np)[0]; contours is what    *)
(* cv2.findContours returns, in discovery order, each contour with twice    *)
(* its cv2.contourArea (area2) and twice the area of its convex hull        *)
(* (hull2).  Thresholds that are fractions are pairs << num, den >> with    *)
(* den > 0 and are compared exactly.                                        *)

\* Largest side of an image, in pixels.
MaxSide == 4

\* Largest number of masks the segmentation returns for an image when more
\* than one mask is classified.
MaxMasks == 2

\* a < b for two fractions.
RatLess(a, b) == a[1] * b[2] < b[1] * a[2]

\* The fraction r times the integer n.
RatTimes(r, n) == << r[1] * n, r[2] >>

\* The integer n as a fraction.
Rat(n) == << n, 1 >>

\* The sides of the images.
Sides == (MaxSide - 1)..MaxSide

\* image_original.shape[:2]: height, then width.
ImageShapes == Sides \X Sides

\* Values of the mean grayscale intensity under a mask.
Levels == {0, 100, 200}

Contour(a, h) == [area2 |-> a, hull2 |-> h]

\* What cv2.findContours can return for a mask that has pixels: degenerate
\* contours (a pixel, a line), convex regions, regions with dents, and masks
\* of two components.
ContourLists ==
    { << Contour(0, 0) >>, << Contour(0, 2) >>, << Contour(1, 2) >>,
      << Contour(2, 2) >>, << Contour(3, 4) >>,
      << Contour(0, 0), Contour(2, 2) >>,
      << Contour(1, 2), Contour(2, 2) >>,
      << Contour(2, 2), Contour(1, 2) >>,
      << Contour(2, 4), Contour(2, 2) >> }

\* A mask without pixels.
EmptyMask == [sum |-> 0, x |-> 0, y |-> 0, w |-> 0, h |-> 0, mean |-> 0,
              contours |-> << >>]

\* The bounding boxes that fit into an image.
Boxes(shape) ==
    { b \in [x : 0..(shape[2] - 1), y : 0..(shape[1] - 1),
             w : 1..shape[2], h : 1..shape[1]] :
        b.x + b.w <= shape[2] /\ b.y + b.h <= shape[1] }

\* The pixel counts of a mask with bounding box b: the box has pixels on all
\* four of its sides; the masks drawn fill their box but for two pixels at
\* most.
PixelCounts(b) ==
    { s \in 1..(b.w * b.h) : s >= b.w * b.h - 2 /\ ((b.w * b.h > 1) => s >= 2) }

\* The contours of a mask with bounding box b: a contour runs through pixel
\* centres, so its hull is no larger than (w - 1) * (h - 1).
ContoursIn(b) ==
    { c \in ContourLists :
        \A i \in 1..Len(c) : c[i].hull2 <= 2 * (b.w - 1) * (b.h - 1) }

\* Every mask of an image.
Masks(shape) ==
    {EmptyMask}
    \cup UNION { { [sum |-> s, x |-> b.x, y |-> b.y, w |-> b.w, h |-> b.h,
                    mean |-> v, contours |-> c] :
                     s \in PixelCounts(b), v \in Levels, c \in ContoursIn(b) }
                 : b \in Boxes(shape) }

\* Bright, filled squares of 2 x 2 pixels on the diagonal of the image: the
\* masks of the images that have several masks.
SquareMasks(shape) ==
    { mk \in Masks(shape) :
        /\ mk.w = 2 /\ mk.h = 2 /\ mk.x = mk.y /\ mk.sum = 4
        /\ mk.mean = 200 /\ mk.contours = << Contour(2, 2) >> }

\* What the segmentation call returns for an image: one mask of any kind, or
\* up to MaxMasks squares.
MaskLists(shape) ==
    { << mk >> : mk \in Masks(shape) }
    \cup UNION { [1..n -> SquareMasks(shape)] : n \in 0..MaxMasks }

\* worker_config["BALLOON_FILTER_PARAMS"]: the thresholds of the five filters.
FilterParams ==
    { [min_area_ratio |-> << 1, 16 >>, max_area_ratio |-> << 1, 2 >>,
       min_aspect_ratio |-> << 1, 2 >>, max_aspect_ratio |-> << 2, 1 >>,
       border_margin |-> 1, min_avg_color |-> 100, min_solidity |-> << 3, 4 >>],
      [min_area_ratio |-> << 0, 1 >>, max_area_ratio |-> << 1, 1 >>,
       min_aspect_ratio |-> << 0, 1 >>, max_aspect_ratio |-> << 4, 1 >>,
       border_margin |-> 0, min_avg_color |-> 0, min_solidity |-> << 1, 1 >>],
      [min_area_ratio |-> << -1, 1 >>, max_area_ratio |-> << 2, 1 >>,
       min_aspect_ratio |-> << -1, 1 >>, max_aspect_ratio |-> << 5, 1 >>,
       border_margin |-> 0, min_avg_color |-> 0, min_solidity |-> << 0, 1 >>],
      [min_area_ratio |-> << 1, 4 >>, max_area_ratio |-> << 3, 4 >>,
       min_aspect_ratio |-> << 1, 1 >>, max_aspect_ratio |-> << 3, 1 >>,
       border_margin |-> 1, min_avg_color |-> 200, min_solidity |-> << 1, 2 >>],
      [min_area_ratio |-> << -1, 1 >>, max_area_ratio |-> << 2, 1 >>,
       min_aspect_ratio |-> << -1, 1 >>, max_aspect_ratio |-> << 5, 1 >>,
       border_margin |-> 2, min_avg_color |-> 100, min_solidity |-> << 3, 2 >>],
      [min_area_ratio |-> << 0, 1 >>, max_area_ratio |-> << 1, 2 >>,
       min_aspect_ratio |-> << 1, 4 >>, max_aspect_ratio |-> << 3, 2 >>,
       border_margin |-> 0, min_avg_color |-> 100, min_solidity |-> << 3, 2 >>] }

\* The configuration process_batch reads.
BatchConfigs ==
    [BALLOON_FILTER_PARAMS : FilterParams,
     GENERATE_YOLO_ANNOTATIONS : BOOLEAN,
     YOLO_CLASS_ID : {0}]

NoBatchConfig ==
    [BALLOON_FILTER_PARAMS |-> "none", GENERATE_YOLO_ANNOTATIONS |-> FALSE,
     YOLO_CLASS_ID |-> 0]

\* What _is_mask_valid returns, and the filter whose "return False" it left by.
Accepted == [valid |-> TRUE, at |-> "end"]
Rejected(filter) == [valid |-> FALSE, at |-> filter]

\* Faulty variant of AreaInRange: the lower bound is inclusive (<=).
AreaInRange_FromMin(mask_area, img_area, filter_params) ==
    /\ ~RatLess(Rat(mask_area), RatTimes(filter_params.min_area_ratio, img_area))
    /\ RatLess(Rat(mask_area), RatTimes(filter_params.max_area_ratio, img_area))

\* min_area_ratio * img_area < mask_area < max_area_ratio * img_area,
\* shared_logic.py:20-24.
AreaInRange(mask_area, img_area, filter_params) ==
    /\ RatLess(RatTimes(filter_params.min_area_ratio, img_area), Rat(mask_area))
    /\ RatLess(Rat(mask_area), RatTimes(filter_params.max_area_ratio, img_area))

\* Faulty variant of AspectInRange: the bounds are inclusive (<=).
AspectInRange_Inclusive(w, h, filter_params) ==
    /\ ~RatLess(<< w, h >>, filter_params.min_aspect_ratio)
    /\ ~RatLess(filter_params.max_aspect_ratio, << w, h >>)

\* min_aspect_ratio < w / h < max_aspect_ratio, shared_logic.py:31-32; h is
\* not 0 here.
AspectInRange(w, h, filter_params) ==
    /\ RatLess(filter_params.min_aspect_ratio, << w, h >>)
    /\ RatLess(<< w, h >>, filter_params.max_aspect_ratio)

\* Faulty variant of NearBorder: the right and the bottom edge are measured from the
\* far side of the box's last pixel (off by one).
NearBorder_OffByOne(x, y, w, h, img_w, img_h, margin) ==
    \/ x < margin
    \/ y < margin
    \/ (x + w) > (img_w - margin) + 1
    \/ (y + h) > (img_h - margin) + 1

\* The test of the border filter, shared_logic.py:37-42.
NearBorder(x, y, w, h, img_w, img_h, margin) ==
    \/ x < margin
    \/ y < margin
    \/ (x + w) > (img_w - margin)
    \/ (y + h) > (img_h - margin)

\* avg_color < min_avg_color, shared_logic.py:47.
TooDark(avg_color, filter_params) == avg_color < filter_params.min_avg_color

\* The index of the first contour of largest area among contours[1..i-1] and
\* contours[i..], best being the index found so far: Python's max keeps the
\* first of several largest items.
RECURSIVE MaxFrom(_, _, _)
MaxFrom(contours, i, best) ==
    IF i > Len(contours) THEN best
    ELSE MaxFrom(contours, i + 1,
                 IF contours[i].area2 > contours[best].area2 THEN i ELSE best)

\* Faulty variant of LargestContour: the first contour found is taken.
LargestContour_First(contours) == contours[1]

\* max(contours, key=cv2.contourArea), shared_logic.py:55.
LargestContour(contours) == contours[MaxFrom(contours, 2, 1)]

\* Faulty variant of is_mask_valid: the brightness is tested before the border margin.
is_mask_valid_BrightnessFirst(mask_np, img_shape, filter_params) ==
    LET img_h == img_shape[1]
        img_w == img_shape[2]
        img_area == img_h * img_w
    IN  IF ~AreaInRange(mask_np.sum, img_area, filter_params)
        THEN Rejected("area")
        ELSE IF mask_np.h = 0 THEN Rejected("aspect")
        ELSE IF ~AspectInRange(mask_np.w, mask_np.h, filter_params)
        THEN Rejected("aspect")
        ELSE IF TooDark(mask_np.mean, filter_params)
        THEN Rejected("brightness")
        ELSE IF NearBorder(mask_np.x, mask_np.y, mask_np.w, mask_np.h,
                           img_w, img_h, filter_params.border_margin)
        THEN Rejected("border")
        ELSE IF mask_np.contours = << >> THEN Rejected("solidity")
        ELSE LET contour == LargestContour(mask_np.contours)
             IN  IF contour.area2 = 0 THEN Rejected("solidity")
                 ELSE IF contour.hull2 = 0 THEN Rejected("solidity")
                 ELSE IF RatLess(<< contour.area2, contour.hull2 >>,
                                 filter_params.min_solidity)
                 THEN Rejected("solidity")
                 ELSE Accepted

\* _is_mask_valid, shared_logic.py:10-69.  img_gray enters by the mean that
\* cv2.mean measured under the mask.
is_mask_valid(mask_np, img_shape, filter_params) ==
    LET img_h == img_shape[1]
        img_w == img_shape[2]
        img_area == img_h * img_w
    IN  IF ~AreaInRange(mask_np.sum, img_area, filter_params)
        THEN Rejected("area")
        ELSE IF mask_np.h = 0 THEN Rejected("aspect")
        ELSE IF ~AspectInRange(mask_np.w, mask_np.h, filter_params)
        THEN Rejected("aspect")
        ELSE IF NearBorder(mask_np.x, mask_np.y, mask_np.w, mask_np.h,
                           img_w, img_h, filter_params.border_margin)
        THEN Rejected("border")
        ELSE IF TooDark(mask_np.mean, filter_params)
        THEN Rejected("brightness")
        ELSE IF mask_np.contours = << >> THEN Rejected("solidity")
        ELSE LET contour == LargestContour(mask_np.contours)
             IN  IF contour.area2 = 0 THEN Rejected("solidity")
                 ELSE IF contour.hull2 = 0 THEN Rejected("solidity")
                 ELSE IF RatLess(<< contour.area2, contour.hull2 >>,
                                 filter_params.min_solidity)
                 THEN Rejected("solidity")
                 ELSE Accepted

\* Faulty variant of Keep: the mask is put in front of the list.
Keep_InFront(filtered_balloons, mask_np) == << mask_np >> \o filtered_balloons

\* filtered_balloons.append(mask_np), shared_logic.py:85.
Keep(filtered_balloons, mask_np) == Append(filtered_balloons, mask_np)

\* "for mask in sam_masks" of find_speech_balloons from index i on,
\* shared_logic.py:81-85.
RECURSIVE FilterFrom(_, _, _, _, _)
FilterFrom(sam_masks, i, img_shape, filter_params, filtered_balloons) ==
    IF i > Len(sam_masks) THEN filtered_balloons
    ELSE FilterFrom(sam_masks, i + 1, img_shape, filter_params,
                    IF is_mask_valid(sam_masks[i], img_shape, filter_params).valid
                    THEN Keep(filtered_balloons, sam_masks[i])
                    ELSE filtered_balloons)

\* find_speech_balloons, shared_logic.py:71-87.
find_speech_balloons(sam_masks, img_shape, filter_params) ==
    IF sam_masks = << >> THEN << >>
    ELSE FilterFrom(sam_masks, 1, img_shape, filter_params, << >>)

\* n / d printed with six decimals (":.6f"), as the number of millionths.
Fixed6(n, d) == (2 * 1000000 * n + d) \div (2 * d)

\* One line of the annotation block, shared_logic.py:122-130: the class id,
\* the centre of the bounding box and its size, relative to the image.
AnnotationLine(mask, img_shape, class_id) ==
    [class_id |-> class_id,
     x_center_norm |-> Fixed6(2 * mask.x + mask.w, 2 * img_shape[2]),
     y_center_norm |-> Fixed6(2 * mask.y + mask.h, 2 * img_shape[1]),
     width_norm |-> Fixed6(mask.w, img_shape[2]),
     height_norm |-> Fixed6(mask.h, img_shape[1])]

\* shared_logic.py:117-131: the lines of annotation_text; no line is the
\* empty text.
AnnotationText(balloons, img_shape, config) ==
    IF config.GENERATE_YOLO_ANNOTATIONS /\ balloons # << >>
    THEN [k \in 1..Len(balloons) |->
            AnnotationLine(balloons[k], img_shape, config.YOLO_CLASS_ID)]
    ELSE << >>

\* shared_logic.py:105-107: the masks of the image are classified.
FindBalloons ==
    /\ bpc = "segmented"
    /\ verdicts' = [i \in 1..Len(masks) |->
                      is_mask_valid(masks[i], image_shape,
                                    batch_config.BALLOON_FILTER_PARAMS)]
    /\ detected_balloons' = find_speech_balloons(masks, image_shape,
                                batch_config.BALLOON_FILTER_PARAMS)
    /\ bpc' = "filtered"
    /\ UNCHANGED << image_shape, batch_config, masks, annotation_text >>
    /\ UNCHANGED << loopVars, hbVars >>

\* shared_logic.py:117-133: the annotation block of the image is written.
Annotate ==
    /\ bpc = "filtered"
    /\ annotation_text' = AnnotationText(detected_balloons, image_shape, batch_config)
    /\ bpc' = "done"
    /\ UNCHANGED << image_shape, batch_config, masks, verdicts, detected_balloons >>
    /\ UNCHANGED << loopVars, hbVars >>

-----------------------------------------------------------------------------
(* worker.py: set-up *)

Alive == pc \notin {"done", "crashed"}

\* A request of the control loop: the history variables that record it.
Request(kind) ==
    lastReq' = [kind |-> kind, url |-> IF kind = "resolve" THEN "discovery" ELSE master_url]

\* worker_status = s in start_worker.
SetStatus(s) == worker_status' = s

\* What the discovery server can answer: an address, a reply without address
\* (""), a failed request ("error": transport error, timeout, non-2xx, a body
\* that is no JSON), or a JSON body that is no object ("notdict"), on which
\* data.get raises an exception nothing catches.
DiscoveryReplies == Urls \cup {"", "error", "notdict"}

\* Faulty variant of AfterFailedDiscovery: one pass too many.
AfterFailedDiscovery_OneMore(a) ==
    IF a + 1 <= DiscoveryAttempts THEN "discover" ELSE "done"

\* Where discover_master_url goes after a pass that gave no address: the
\* next pass of "for attempt in range(5)", or it returns None and start_worker
\* returns, worker.py:69-70,91-92.
AfterFailedDiscovery(a) == IF a + 1 < DiscoveryAttempts THEN "discover" ELSE "done"

\* One pass of the loop of discover_master_url (attempt is its loop variable,
\* gone when it returns), and the return of start_worker when it gave None.
DiscoverAttempt(r) ==
    /\ pc = "discover"
    /\ Request("resolve")
    /\ IF r \in Urls
       THEN /\ master_url' = r
            /\ pc' = "config"
            /\ attempt' = 0
       ELSE IF r = "notdict"
       THEN /\ pc' = "crashed"
            /\ attempt' = 0
            /\ UNCHANGED master_url
       ELSE /\ attempt' = attempt + 1
            /\ pc' = AfterFailedDiscovery(attempt)
            /\ UNCHANGED master_url
    /\ UNCHANGED << worker_id, worker_status, worker_config, sam_model, response,
                    job_list, status, jobIdx, results_to_submit, submitAttempt,
                    submitted_successfully, delay, hbpc, hbUrl, hbPayload,
                    nConfig, nModelLoad >>
    /\ UNCHANGED batchVars

Discover == \E r \in DiscoveryReplies : DiscoverAttempt(r)

\* The keys of the configuration the control flow reads.
ConfigKeys == {"SAM_MODEL_NAME", "WORKER_RETRY_DELAY"}

EmptyConfig == [isNone |-> FALSE, keys |-> {}]
NoneConfig  == [isNone |-> TRUE, keys |-> {}]

\* get_master_config: the JSON of the reply, or None when the request failed.
ConfigReplies == { [isNone |-> FALSE, keys |-> ks] : ks \in SUBSET ConfigKeys }
                 \cup {NoneConfig}

\* "not worker_config": None and the empty object are falsy.
Falsy(cfg) == cfg.isNone \/ cfg.keys = {}

\* Faulty variant of AfterConfig: a failed fetch is tried again.
AfterConfig_Retry(cfg) == IF Falsy(cfg) THEN "config" ELSE "startHeartbeat"

\* Where start_worker goes with the configuration it got, worker.py:96-100.
AfterConfig(cfg) == IF Falsy(cfg) THEN "done" ELSE "startHeartbeat"

\* worker.py:95-98.
FetchConfig(cfg) ==
    /\ pc = "config"
    /\ Request("config")
    /\ nConfig' = nConfig + 1
    /\ worker_config' = cfg
    /\ pc' = AfterConfig(cfg)
    /\ IF Falsy(cfg)
       THEN SetStatus(StConfigErr)
       ELSE UNCHANGED worker_status
    /\ UNCHANGED << worker_id, master_url, attempt, sam_model, response, job_list,
                    status, jobIdx, results_to_submit, submitAttempt,
                    submitted_successfully, delay, hbpc, hbUrl, hbPayload, nModelLoad >>
    /\ UNCHANGED batchVars

GetConfig == \E cfg \in ConfigReplies : FetchConfig(cfg)

\* worker.py:100-103.
StartHeartbeat ==
    /\ pc = "startHeartbeat"
    /\ hbpc' = "read"
    /\ hbUrl' = master_url
    /\ pc' = "loadModel"
    /\ UNCHANGED << worker_id, worker_status, worker_config, master_url, attempt,
                    sam_model, response, job_list, status, jobIdx,
                    results_to_submit, submitAttempt, submitted_successfully, delay,
                    hbPayload, lastReq, nConfig,
                    nModelLoad >>
    /\ UNCHANGED batchVars

\* initialize_model: the loaded model, or a falsy value when it cannot be had.
initialize_model(loaded) == IF loaded THEN "model" ELSE "None"

\* worker.py:105-110.  worker_config['SAM_MODEL_NAME'] raises KeyError when
\* the configuration lacks the key; nothing catches it.
LoadModelWith(loaded) ==
    /\ pc = "loadModel"
    /\ IF "SAM_MODEL_NAME" \notin worker_config.keys
       THEN /\ pc' = "crashed"
            /\ UNCHANGED << sam_model, nModelLoad, worker_status >>
       ELSE /\ nModelLoad' = nModelLoad + 1
            /\ sam_model' = initialize_model(loaded)
            /\ IF sam_model' = "None"
               THEN SetStatus(StModelErr) /\ pc' = "done"
               ELSE UNCHANGED worker_status /\ pc' = "poll"
    /\ UNCHANGED << worker_id, worker_config, master_url, attempt, response,
                    job_list, status, jobIdx, results_to_submit, submitAttempt,
                    submitted_successfully, delay, hbpc, hbUrl, hbPayload,
                    lastReq, nConfig >>
    /\ UNCHANGED batchVars

LoadModel == \E loaded \in BOOLEAN : LoadModelWith(loaded)

-----------------------------------------------------------------------------
(* worker.py: the main loop *)

PollStatuses == {"new_batch", "no_more_jobs", "paused", "other"}

\* Everything get_batch_jobs can end in.  code 0: requests.get raised (no
\* connection, timeout); 426: the version gate; 500: another non-2xx code;
\* 200 with a body that is no JSON, a JSON body that is no object, or an
\* object with a status ("other": an unknown or missing status) and jobs.
PollReplies ==
    {NoResponse}
    \cup { [code |-> c, body |-> "notjson", status |-> "none", jobs |-> << >>] :
             c \in {VersionGateCode, 500, 200} }
    \cup { [code |-> 200, body |-> "notobject", status |-> "none", jobs |-> << >>] }
    \cup { [code |-> c, body |-> "object", status |-> s, jobs |-> << >>] :
             c \in {VersionGateCode, 500}, s \in {"no_more_jobs", "paused"} }
    \cup { [code |-> c, body |-> "object", status |-> "new_batch",
             jobs |-> << Job(1, "ok") >>] : c \in {VersionGateCode, 500} }
    \cup { [code |-> 200, body |-> "object", status |-> s, jobs |-> j] :
             s \in PollStatuses \ {"new_batch"}, j \in {<< >>, << Job(1, "ok") >>} }
    \cup { [code |-> 200, body |-> "object", status |-> "new_batch", jobs |-> j] :
             j \in Batches }

\* worker_config.get('WORKER_RETRY_DELAY', 15), worker.py:195,199.
RetryDelay == IF "WORKER_RETRY_DELAY" \in worker_config.keys THEN "WORKER_RETRY_DELAY"
              ELSE "15"

\* Faulty variant of OnRequestException: the handler leaves the loop.
OnRequestException_Break ==
    /\ SetStatus(StConnErr)
    /\ delay' = delay
    /\ pc' = "done"

\* "except requests.exceptions.RequestException", worker.py:190-195.
OnRequestException ==
    /\ SetStatus(StConnErr)
    /\ delay' = RetryDelay
    /\ pc' = "sleep"

\* "except Exception", worker.py:196-199.
OnException ==
    /\ SetStatus(StCritical)
    /\ delay' = RetryDelay
    /\ pc' = "sleep"

\* worker.py:115-119: the top of the loop, up to the request being sent.
PollSend ==
    /\ pc = "poll"
    /\ SetStatus(StIdle)
    /\ Request("poll")
    /\ pc' = "pollWait"
    /\ response' = NoResponse
    /\ UNCHANGED << worker_id, worker_config, master_url, attempt, sam_model,
                    job_list, status, jobIdx, results_to_submit,
                    submitAttempt, submitted_successfully, delay, hbpc, hbUrl,
                    hbPayload, nConfig, nModelLoad >>
    /\ UNCHANGED batchVars

\* Faulty variant of IsVersionGate: the gate tests another code (403).
IsVersionGate_WrongCode(resp) == resp.code = 403

\* response.status_code == 426, worker.py:121.
IsVersionGate(resp) == resp.code = VersionGateCode

\* Faulty variant of Branch: the test "and job_list" is missing, so that an empty
\* batch is taken for a batch.
Branch_EmptyBatch(st, jobs) ==
    IF st = "new_batch" THEN "new_batch"
    ELSE IF st = "no_more_jobs" THEN "no_more_jobs"
    ELSE IF st = "paused" THEN "paused"
    ELSE "else"

\* Faulty variant of Branch: the no_more_jobs branch is missing and the status falls
\* through to the final else.
Branch_NoDoneBranch(st, jobs) ==
    IF st = "new_batch" /\ jobs # << >> THEN "new_batch"
    ELSE IF st = "paused" THEN "paused"
    ELSE "else"

\* The branch taken on a parsed reply, worker.py:132-188.
Branch(st, jobs) ==
    IF st = "new_batch" /\ jobs # << >> THEN "new_batch"
    ELSE IF st = "no_more_jobs" THEN "no_more_jobs"
    ELSE IF st = "paused" THEN "paused"
    ELSE "else"

\* worker.py:183-186.  The subscript worker_config['WORKER_RETRY_DELAY']
\* raises KeyError when the key is missing, after the status was set.
OnPaused ==
    IF "WORKER_RETRY_DELAY" \in worker_config.keys
    THEN /\ SetStatus(StPaused)
         /\ delay' = "WORKER_RETRY_DELAY"
         /\ pc' = "sleep"
    ELSE OnException

\* Faulty variant of FreshResults: the list is created once, before the loop, and
\* keeps the entries of earlier batches.
FreshResults_CarriedOver == results_to_submit

\* "results_to_submit = []" at the start of a batch, worker.py:133.
FreshResults == << >>

\* worker.py:119-199: the reply to get_batch_jobs, up to the next blocking
\* call.  h is the handler a body that is no JSON ends in: response.json()
\* raises a RequestException or a plain ValueError, by the version of the
\* HTTP library.
PollRecv(resp, h) ==
    /\ pc = "pollWait"
    /\ response' = resp
    /\ IF resp.code = 0
       THEN OnRequestException /\ UNCHANGED << job_list, status, jobIdx, results_to_submit >>
       ELSE IF IsVersionGate(resp)
       THEN /\ SetStatus(StOutdated)
            /\ pc' = "done"
            /\ UNCHANGED << job_list, status, jobIdx, results_to_submit, delay >>
       ELSE IF resp.code # 200
       THEN OnRequestException /\ UNCHANGED << job_list, status, jobIdx, results_to_submit >>
       ELSE IF resp.body = "notjson"
       THEN /\ IF h = "request" THEN OnRequestException ELSE OnException
            /\ UNCHANGED << job_list, status, jobIdx, results_to_submit >>
       ELSE IF resp.body = "notobject"
       THEN OnException /\ UNCHANGED << job_list, status, jobIdx, results_to_submit >>
       ELSE /\ job_list' = resp.jobs
            /\ status' = resp.status
            /\ LET b == Branch(resp.status, resp.jobs) IN
               IF b = "new_batch"
               THEN /\ results_to_submit' = FreshResults
                    /\ jobIdx' = 1
                    /\ pc' = "process"
                    /\ UNCHANGED << worker_status, delay >>
               ELSE IF b = "no_more_jobs"
               THEN /\ SetStatus(StDone)
                    /\ pc' = "done"
                    /\ UNCHANGED << jobIdx, results_to_submit, delay >>
               ELSE IF b = "paused"
               THEN OnPaused /\ UNCHANGED << jobIdx, results_to_submit >>
               ELSE /\ delay' = "5"
                    /\ pc' = "sleep"
                    /\ UNCHANGED << worker_status, jobIdx, results_to_submit >>
    /\ UNCHANGED << worker_id, worker_config, master_url, attempt, sam_model,
                    submitAttempt, submitted_successfully, hbpc, hbUrl, hbPayload, lastReq, nConfig, nModelLoad >>
    /\ UNCHANGED batchVars

Poll == \E resp \in PollReplies : \E h \in {"request", "other"} : PollRecv(resp, h)

\* The end of a time.sleep of the loop (worker.py:186,188,195,199): back to
\* the top of "while True".
Wake ==
    /\ pc = "sleep"
    /\ delay' = "none"
    /\ pc' = "poll"
    /\ UNCHANGED << worker_id, worker_status, worker_config, master_url, attempt,
                    sam_model, response, job_list, status, jobIdx,
                    results_to_submit, submitAttempt, submitted_successfully, hbpc,
                    hbUrl, hbPayload, lastReq, nConfig,
                    nModelLoad >>
    /\ UNCHANGED batchVars

\* worker.py:137-139: a job of the batch is taken up.
BeginJob ==
    /\ pc = "process"
    /\ jobIdx <= Len(job_list)
    /\ SetStatus(StProcessing(job_list[jobIdx].filename))
    /\ pc' = "processing"
    /\ UNCHANGED << worker_id, worker_config, master_url, attempt, sam_model,
                    response, job_list, status, jobIdx, results_to_submit,
                    submitAttempt, submitted_successfully, delay, hbpc, hbUrl,
                    hbPayload, lastReq, nConfig,
                    nModelLoad >>
    /\ UNCHANGED batchVars

\* The entry of results_to_submit for a job, worker.py:149-155.
Payload(job, result) ==
    [task_id |-> job.task_id, manga_name |-> job.manga_name,
     filename |-> job.filename, image_data_b64 |-> result.bytes,
     txt_data |-> result.text]

\* What lines 141-145 give for a job: base64.b64decode raises on a payload
\* that is no base64; otherwise the outcome of process_image.
RunJob(job) ==
    IF job.kind = "badb64" THEN [raised |-> TRUE, result |-> NullResult]
    ELSE process_image(job.kind)

\* Faulty variant of AfterBatch: the test "if results_to_submit" is missing.
AfterBatch_Unguarded(results) == "submit"

\* Where the loop goes when "for job in job_list" is exhausted, worker.py:160.
AfterBatch(results) == IF results # << >> THEN "submit" ELSE "poll"

\* worker.py:141-161: the job is decoded and processed; its result is kept
\* or its failure logged; after the last job the submission loop is entered
\* when there is something to submit.  An exception leaves the batch for the
\* handler of worker.py:196.
FinishJob ==
    /\ pc = "processing"
    /\ LET job == job_list[jobIdx]
           r   == RunJob(job)
           res == IF r.result.bytes # "None"
                  THEN Append(results_to_submit, Payload(job, r.result))
                  ELSE results_to_submit
       IN  IF r.raised
           THEN /\ OnException
                /\ UNCHANGED << jobIdx, results_to_submit, submitAttempt,
                                submitted_successfully >>
           ELSE /\ results_to_submit' = res
                /\ jobIdx' = jobIdx + 1
                /\ IF jobIdx + 1 <= Len(job_list)
                   THEN /\ pc' = "process"
                        /\ UNCHANGED << submitAttempt, submitted_successfully >>
                   ELSE IF AfterBatch(res) = "submit"
                   THEN /\ pc' = "submit"
                        /\ submitted_successfully' = FALSE
                        /\ submitAttempt' = 0
                   ELSE /\ pc' = "poll"
                        /\ UNCHANGED << submitAttempt, submitted_successfully >>
                /\ UNCHANGED << worker_status, delay >>
    /\ UNCHANGED << worker_id, worker_config, master_url, attempt, sam_model,
                    response, job_list, status, hbpc, hbUrl, hbPayload,
                    lastReq, nConfig, nModelLoad >>
    /\ UNCHANGED batchVars

\* worker.py:164-167: one POST of the results.
SubmitSend ==
    /\ pc = "submit"
    /\ Request("submit")
    /\ pc' = "submitWait"
    /\ UNCHANGED << worker_id, worker_status, worker_config, master_url, attempt,
                    sam_model, response, job_list, status, jobIdx,
                    results_to_submit, submitAttempt, submitted_successfully, delay,
                    hbpc, hbUrl, hbPayload, nConfig, nModelLoad >>
    /\ UNCHANGED batchVars

\* worker.py:168-174: the POST succeeded (break), or it raised a
\* RequestException (transport error, timeout, non-2xx) and the loop sleeps 5s.
SubmitRecv(ok) ==
    /\ pc = "submitWait"
    /\ IF ok
       THEN /\ submitted_successfully' = TRUE
            /\ pc' = "poll"
       ELSE /\ pc' = "submitSleep"
            /\ UNCHANGED submitted_successfully
    /\ UNCHANGED << worker_id, worker_status, worker_config, master_url, attempt,
                    sam_model, response, job_list, status, jobIdx,
                    results_to_submit, submitAttempt, delay, hbpc, hbUrl, hbPayload, lastReq, nConfig, nModelLoad >>
    /\ UNCHANGED batchVars

Submit == \E ok \in BOOLEAN : SubmitRecv(ok)

\* Faulty variant of AfterFailedSubmit: one attempt too many (range(4)).
AfterFailedSubmit_OneMore(a) == IF a + 1 < SubmitAttempts + 1 THEN "submit" ELSE "poll"

\* Where the submission loop goes after a failed attempt, worker.py:162,176.
AfterFailedSubmit(a) == IF a + 1 < SubmitAttempts THEN "submit" ELSE "poll"

\* worker.py:174-177: the sleep after a failed attempt ends; the next attempt,
\* or, after the last one, the exhaustion is logged and the loop starts over.
SubmitWake ==
    /\ pc = "submitSleep"
    /\ submitAttempt' = submitAttempt + 1
    /\ pc' = AfterFailedSubmit(submitAttempt)
    /\ UNCHANGED << worker_id, worker_status, worker_config, master_url, attempt,
                    sam_model, response, job_list, status, jobIdx,
                    results_to_submit, submitted_successfully, delay, hbpc, hbUrl,
                    hbPayload, lastReq, nConfig,
                    nModelLoad >>
    /\ UNCHANGED batchVars

-----------------------------------------------------------------------------
(* worker.py: the heartbeat thread, a daemon thread that ends with the process *)

\* worker.py:31: the payload is built from the globals.
HeartbeatRead ==
    /\ Alive
    /\ hbpc = "read"
    /\ hbPayload' = [worker_id |-> worker_id, status |-> worker_status]
    /\ hbpc' = "post"
    /\ UNCHANGED hbUrl
    /\ UNCHANGED loopVars
    /\ UNCHANGED batchVars

\* Faulty variant of AfterHeartbeat: the exception of a failed POST is not caught and
\* ends the thread.
AfterHeartbeat_NoCatch(ok) == IF ok THEN "sleep" ELSE "dead"

\* Where send_heartbeat goes after the POST: a RequestException is caught and
\* logged, worker.py:33-34.
AfterHeartbeat(ok) == "sleep"

\* Faulty variant of HeartbeatPost: a failed POST is reported in the shared status.
HeartbeatPost_WritesStatus(ok) ==
    /\ Alive
    /\ hbpc = "post"
    /\ hbPayload' = NoPayload
    /\ hbpc' = "sleep"
    /\ worker_status' = IF ok THEN worker_status ELSE StConnErr
    /\ UNCHANGED << hbUrl, pc, worker_id, worker_config, master_url, attempt,
                    sam_model, response, job_list, status, jobIdx,
                    results_to_submit, submitAttempt, submitted_successfully, delay,
                    lastReq, nConfig, nModelLoad >>
    /\ UNCHANGED batchVars

\* worker.py:32-34: the POST of hbPayload, which succeeds or raises a
\* RequestException.  The payload is rebuilt at every pass and is dropped here.
HeartbeatPost(ok) ==
    /\ Alive
    /\ hbpc = "post"
    /\ hbPayload' = NoPayload
    /\ hbpc' = AfterHeartbeat(ok)
    /\ UNCHANGED hbUrl
    /\ UNCHANGED loopVars
    /\ UNCHANGED batchVars

HeartbeatSend == \E ok \in BOOLEAN : HeartbeatPost(ok)

\* worker.py:35: time.sleep(15) ends.
HeartbeatWake ==
    /\ Alive
    /\ hbpc = "sleep"
    /\ hbpc' = "read"
    /\ UNCHANGED << hbPayload, hbUrl >>
    /\ UNCHANGED loopVars
    /\ UNCHANGED batchVars

Heartbeat == HeartbeatRead \/ HeartbeatSend \/ HeartbeatWake

-----------------------------------------------------------------------------
(* The specification *)

\* The worker after the module is loaded, worker.py:19-22, before start_worker.
WorkerInit ==
    /\ pc = "discover"
    /\ worker_id = "uuid4"
    /\ worker_status = StInit
    /\ worker_config = EmptyConfig
    /\ master_url = "None"
    /\ attempt = 0
    /\ sam_model = "None"
    /\ response = NoResponse
    /\ job_list = << >>
    /\ status = "none"
    /\ jobIdx = 0
    /\ results_to_submit = << >>
    /\ submitAttempt = 0
    /\ submitted_successfully = FALSE
    /\ delay = "none"
    /\ hbpc = "off"
    /\ hbUrl = "none"
    /\ hbPayload = NoPayload
    /\ lastReq = NoRequest
    /\ nConfig = 0
    /\ nModelLoad = 0

\* The worker starts; the batch processor is not at work.
Init ==
    /\ WorkerInit
    /\ bpc = "off"
    /\ image_shape = << 0, 0 >>
    /\ batch_config = NoBatchConfig
    /\ masks = << >>
    /\ verdicts = << >>
    /\ detected_balloons = << >>
    /\ annotation_text = << >>

Next ==
    \/ Discover
    \/ GetConfig
    \/ StartHeartbeat
    \/ LoadModel
    \/ PollSend
    \/ Poll
    \/ Wake
    \/ BeginJob
    \/ FinishJob
    \/ SubmitSend
    \/ Submit
    \/ SubmitWake
    \/ HeartbeatRead
    \/ HeartbeatSend
    \/ HeartbeatWake

Spec == Init /\ [][Next]_vars

\* The threads are scheduled fairly and every blocking call of the control
\* loop returns (all requests carry a timeout, every sleep ends).
FairSpec == Spec /\ WF_vars(Heartbeat)

\* The steps of "while True" in start_worker, worker.py:113-199.
Loop == PollSend \/ Poll \/ Wake \/ BeginJob \/ FinishJob \/ SubmitSend
        \/ Submit \/ SubmitWake

\* The coordinator answers a poll with status no_more_jobs, worker.py:179.
NoMoreJobsReply ==
    \E h \in {"request", "other"} :
        PollRecv([code |-> 200, body |-> "object", status |-> "no_more_jobs",
                  jobs |-> << >>], h)

\* Every request of the control loop gets a response or times out and every
\* sleep ends (weak fairness of the loop, whose blocking calls all carry a
\* timeout: worker.py:119,167); and a coordinator that is polled again and
\* again eventually answers no_more_jobs (strong fairness of that reply).
\* Nothing is assumed of the heartbeat thread.
LiveSpec == Spec /\ WF_vars(Loop) /\ SF_vars(NoMoreJobsReply)

\* The batch processor at work on one decoded image, shared_logic.py:102-133:
\* the image, the configuration and the masks the segmentation returned are
\* drawn from the bounded sets above.
BatchInit ==
    /\ WorkerInit
    /\ bpc = "segmented"
    /\ image_shape \in ImageShapes
    /\ batch_config \in BatchConfigs
    /\ masks \in MaskLists(image_shape)
    /\ verdicts = << >>
    /\ detected_balloons = << >>
    /\ annotation_text = << >>

BatchNext == FindBalloons \/ Annotate

BatchSpec == BatchInit /\ [][BatchNext]_vars

-----------------------------------------------------------------------------
(* Vocabulary of the claims *)

\* The control loop is inside "while True", worker.py:113-199.
InLoop == pc \in {"poll", "pollWait", "process", "processing", "submit",
                  "submitWait", "submitSleep", "sleep"}

\* Steps of the control loop, read off its position.
PollIssued    == pc # "pollWait" /\ pc' = "pollWait"
PollAnswered  == pc = "pollWait" /\ pc' # "pollWait"
SubmitIssued  == pc # "submitWait" /\ pc' = "submitWait"

\* The reply is a parsed object of a 2xx response.
Parsed(resp) == resp.code = 200 /\ resp.body = "object"

\* The reply is a failure other than the version gate: no connection or
\* timeout, another non-2xx code, or a 2xx body that cannot be used.
Failure(resp) ==
    \/ resp.code = 0
    \/ resp.code \notin {0, 200, VersionGateCode}
    \/ resp.code = 200 /\ resp.body # "object"

\* The job at position i of the batch fails: it gives no result.
Fails(job) == job.kind # "ok"

-----------------------------------------------------------------------------
(* C1 *)

C1_Step ==
    /\ (PollAnswered /\ response'.code = VersionGateCode)
          => (pc' = "done" /\ worker_status' = StOutdated)
    /\ (pc = "done") => UNCHANGED vars

\* C1: whenever a get-batch-jobs response carries code 426, whatever its body
\* and at whichever poll, the control loop sets the out-of-date status and
\* leaves the main loop for good: from then on no step is taken, so no further
\* get-batch-jobs and no submit-batch-results request is issued.
C1_VersionGateTerminal == [][C1_Step]_vars

\* A 426 reply, whose body is a new batch, after an earlier batch was fetched.
C1_Witness ==
    /\ pc = "done"
    /\ response.code = VersionGateCode
    /\ response.status = "new_batch"
    /\ job_list # << >>
    /\ worker_status = StOutdated

-----------------------------------------------------------------------------
(* C2 *)

C2_State ==
    /\ submitAttempt <= SubmitAttempts
    /\ pc \in {"submit", "submitWait", "submitSleep"}
          => (submitAttempt < SubmitAttempts /\ results_to_submit # << >>)

C2_Step ==
    \* the sleep after the third failed attempt ends at the top of the loop
    /\ (pc = "submitSleep" /\ pc' # "submitSleep" /\ submitAttempt = SubmitAttempts - 1)
          => (pc' = "poll" /\ ~submitted_successfully' /\ submitAttempt' = SubmitAttempts)
    \* from the top of the loop the only request is get-batch-jobs
    /\ (pc = "poll" /\ pc' # "poll") => PollIssued
    \* the submission loop is entered only from the last job of a batch
    /\ (pc \notin {"submit", "submitWait", "submitSleep"} /\ pc' = "submit")
          => (pc = "processing" /\ jobIdx' > Len(job_list) /\ submitAttempt' = 0)
    /\ SubmitIssued => pc = "submit"
    /\ C2_State'

\* C2: for a batch with at least one result, after 3 consecutive failed
\* submit-batch-results attempts there is no 4th attempt; the worker does not
\* terminate but is back at the top of the loop, whose next request is a
\* get-batch-jobs poll; the results are not sent again (a submission is only
\* ever started from the last job of a newly processed batch).
C2_SubmitExhaustion == C2_State /\ [][C2_Step]_vars

\* The worker is back at the top of the loop after three failed attempts.
C2_Witness ==
    /\ pc = "poll"
    /\ submitAttempt = SubmitAttempts
    /\ ~submitted_successfully
    /\ results_to_submit # << >>

-----------------------------------------------------------------------------
(* C3 *)

C3_Step ==
    \* the loop is left only on a 426 reply or a no_more_jobs reply
    /\ (InLoop /\ ~InLoop')
          => /\ PollAnswered
             /\ \/ response'.code = VersionGateCode
                \/ Parsed(response') /\ response'.status = "no_more_jobs"
    \* a failed poll: the retry delay, then the top of the loop
    /\ (PollAnswered /\ Failure(response'))
          => /\ pc' = "sleep"
             /\ delay' = RetryDelay
             /\ worker_status' \in {StConnErr, StCritical}
    \* an exception while a job is processed: the same
    /\ (pc = "processing" /\ RunJob(job_list[jobIdx]).raised)
          => (pc' \in {"processing", "sleep"}
              /\ (pc' = "sleep" => delay' = RetryDelay))
    /\ (pc = "sleep" /\ pc' # "sleep") => pc' = "poll"
    /\ (pc = "poll" /\ pc' # "poll") => PollIssued

\* C3: once inside the main loop the control loop leaves it only directly
\* after a get-batch-jobs reply that is the version gate or says no_more_jobs;
\* after a transport failure, a timeout, another non-2xx reply or an
\* unexpected processing error it sleeps the retry delay and polls again,
\* however many failures came before.
C3_OnlyTwoExits == [][C3_Step]_vars

\* The worker sleeps after a non-2xx reply that followed a failed batch.
C3_Witness ==
    /\ pc = "sleep"
    /\ response.code = 500
    /\ delay = "15"
    /\ worker_status = StConnErr
    /\ job_list # << >>
    /\ jobIdx <= Len(job_list)

-----------------------------------------------------------------------------
(* C4 *)

\* The entries of results that belong to the job at position i of the batch.
ResultsOf(results, i) ==
    { k \in 1..Len(results) : results[k].task_id = job_list[i].task_id }

C4_Step ==
    (pc \in {"process", "processing"} /\ pc' \notin {"process", "processing"})
       => \A i \in 1..Len(job_list) :
             /\ ~Fails(job_list[i]) => Cardinality(ResultsOf(results_to_submit', i)) = 1
             /\ Fails(job_list[i]) => ResultsOf(results_to_submit', i) = {}

\* C4: a task that fails to decode or to be processed never aborts its batch:
\* when the worker leaves a batch, every task that does not itself fail has
\* been processed to exactly one result and every failing task has none,
\* whichever tasks of the batch fail.
C4_BatchIsolation == [][C4_Step]_vars

-----------------------------------------------------------------------------
(* C5 *)

C5_Step ==
    (PollIssued /\ Branch(status, job_list) = "new_batch")
       => /\ jobIdx >= Len(job_list)
          /\ results_to_submit # << >>
                => (submitted_successfully \/ submitAttempt = SubmitAttempts)

\* C5: after a new_batch reply with n >= 1 jobs no get-batch-jobs request is
\* issued until all n jobs have been taken up (the loop over the batch has
\* reached its last job) and, when there are results, their submission has
\* been attempted to success or exhaustion: nothing makes the worker skip the
\* remaining jobs and poll again.
C5_BatchRunsToCompletion == [][C5_Step]_vars

-----------------------------------------------------------------------------
(* C6 *)

\* Every value start_worker gives worker_status, and its initial value.
LoopStatuses ==
    {StInit, StConfigErr, StModelErr, StIdle, StOutdated, StDone, StPaused,
     StConnErr, StCritical} \cup { StProcessing(Filename(i)) : i \in 1..MaxJobs }

\* A step of the heartbeat thread.
HeartbeatStep == hbpc # "off" /\ hbpc' # hbpc

C6_State ==
    /\ worker_status \in LoopStatuses
    /\ hbpc = "post" => (hbPayload.status \in LoopStatuses /\ hbPayload.worker_id = worker_id)

C6_Step ==
    /\ HeartbeatStep => UNCHANGED << worker_status, worker_id, worker_config >>
    \* the payload is the status at the time it is read ...
    /\ (hbpc = "read" /\ hbpc' = "post") => hbPayload' = [worker_id |-> worker_id,
                                                          status |-> worker_status]
    \* ... and is not changed until it is sent
    /\ (hbpc = "post" /\ hbpc' = "post") => hbPayload' = hbPayload
    /\ C6_State'

\* C6: in every interleaving the control loop is the only writer of the shared
\* state: no heartbeat step changes worker_status, worker_id or worker_config,
\* and the status a heartbeat carries is the value the control loop had
\* written (or the initial one) when the payload was read, before it is sent.
C6_SingleWriter == C6_State /\ [][C6_Step]_vars

\* A heartbeat about to be sent with a status the control loop has since
\* replaced.
C6_Witness ==
    /\ hbpc = "post"
    /\ hbPayload.status = StProcessing(Filename(1))
    /\ worker_status = StIdle
    /\ pc = "pollWait"

-----------------------------------------------------------------------------
(* C7 *)

C7_Step ==
    \* a POST, failed or not, is followed by the sleep and touches nothing of
    \* the control loop
    /\ (hbpc = "post" /\ hbpc' # "post") => (hbpc' = "sleep" /\ UNCHANGED loopVars)
    \* once started it is never back to not running
    /\ hbpc # "off" => hbpc' \in {"read", "post", "sleep"}

\* C7: once started the reporter runs for the whole process lifetime, whatever
\* the control loop does: under fair scheduling, unless the process exits, it
\* sends heartbeats again and again (also when the control loop stays blocked
\* in a request, in a batch or in a sleep for ever); a failed heartbeat neither
\* stops it nor touches the control loop; it can always take a step while the
\* process lives.
C7_HeartbeatRuns ==
    /\ []<>(hbpc = "off" \/ ~Alive \/ hbpc = "sleep")
    /\ []<>(hbpc = "off" \/ ~Alive \/ hbpc # "sleep")
    /\ []((hbpc # "off" /\ Alive) => ENABLED Heartbeat)
    /\ [][C7_Step]_vars

\* A heartbeat read while the control loop sleeps on a pause.
C7_Witness ==
    /\ pc = "sleep"
    /\ worker_status = StPaused
    /\ hbpc = "post"
    /\ hbPayload.status = StPaused

-----------------------------------------------------------------------------
(* C8 *)

C8_State ==
    /\ attempt <= DiscoveryAttempts
    /\ pc = "discover" => /\ attempt < DiscoveryAttempts
                          /\ master_url = "None"
                          /\ lastReq.kind \in {"none", "resolve"}
    \* without an address: nothing but resolve requests, no heartbeat
    /\ master_url = "None" => /\ pc \in {"discover", "done", "crashed"}
                              /\ nConfig = 0
                              /\ hbpc = "off"
                              /\ lastReq.kind \in {"none", "resolve"}
    \* the address found is the one every later call uses
    /\ lastReq.kind \in {"config", "poll", "submit"} => lastReq.url = master_url
    /\ hbpc # "off" => hbUrl = master_url

C8_Step ==
    \* every resolve request is one of the passes 0..4; a pass without address
    \* is counted, and the fifth ends the worker
    /\ (lastReq'.kind = "resolve" /\ pc = "discover" /\ pc' # "crashed" /\ master_url' = "None")
          => /\ attempt' = attempt + 1
             /\ pc' = IF attempt' < DiscoveryAttempts THEN "discover" ELSE "done"
    \* the first address ends the discovery and is kept
    /\ master_url # "None" => (master_url' = master_url /\ lastReq'.kind # "resolve")
    /\ C8_State'

\* C8: at most 5 resolve-address requests are issued; discovery stops at the
\* first reply with a non-empty address, which every later call uses; when all
\* 5 passes fail or carry no address the worker ends without fetching the
\* configuration, starting the heartbeat or requesting a batch.
C8_BoundedDiscovery == C8_State /\ [][C8_Step]_vars

\* The worker has ended after five passes without an address.
C8_Witness ==
    /\ pc = "done"
    /\ attempt = DiscoveryAttempts
    /\ master_url = "None"
    /\ lastReq.kind = "resolve"

-----------------------------------------------------------------------------
(* C9 *)

SetupDone ==
    /\ master_url \in Urls
    /\ ~Falsy(worker_config)
    /\ sam_model = "model"
    /\ nConfig = 1
    /\ nModelLoad = 1

C9_State ==
    /\ nConfig <= 1
    /\ nModelLoad <= 1
    /\ pc \in {"startHeartbeat", "loadModel"} => nConfig = 1
    /\ InLoop => SetupDone
    /\ lastReq.kind \in {"poll", "submit"} => SetupDone

C9_Step ==
    \* a failed configuration fetch: failure status, the worker ends
    /\ (pc = "config" /\ pc' # "config" /\ Falsy(worker_config'))
          => (pc' = "done" /\ worker_status' = StConfigErr)
    \* a failed model load: failure status, the worker ends
    /\ (nModelLoad' # nModelLoad /\ sam_model' # "model")
          => (pc' = "done" /\ worker_status' = StModelErr)
    /\ C9_State'

\* C9: get-config is requested once and never again, the model load is
\* attempted once and never again; when either fails the worker sets the
\* failure status and terminates; get-batch-jobs is only ever requested after
\* discovery, configuration fetch and model load have all succeeded.
C9_SetupFatal == C9_State /\ [][C9_Step]_vars

\* The worker has ended on a failed model load, the heartbeat running.
C9_Witness ==
    /\ pc = "done"
    /\ worker_status = StModelErr
    /\ nConfig = 1
    /\ nModelLoad = 1
    /\ hbpc # "off"
    /\ lastReq.kind = "config"

-----------------------------------------------------------------------------
(* C10 *)

C10_Step ==
    (PollAnswered /\ Parsed(response') /\ Branch(response'.status, response'.jobs) = "paused")
       => /\ worker_status' = StPaused
          /\ worker_status' \notin ErrorStatuses
          /\ pc' = "sleep"
          /\ delay' = "WORKER_RETRY_DELAY"

\* C10: a reply with status paused is no error: the worker sets the paused
\* status and no error status, sleeps the configured delay and does not
\* terminate or submit; it then polls again.
C10_PausedIsNoError == [][C10_Step]_vars

-----------------------------------------------------------------------------
(* C11 *)

C11_Step ==
    /\ (PollAnswered /\ Parsed(response') /\ response'.status = "no_more_jobs")
          => /\ pc' = "done"
             /\ worker_status' = StDone
             /\ UNCHANGED << jobIdx, results_to_submit, lastReq >>
    /\ pc = "done" => UNCHANGED loopVars

\* C11: when every request eventually gets a response and the coordinator
\* eventually answers a poll with no_more_jobs, the control loop eventually
\* terminates; on that reply the worker sets the completed status, takes up
\* no job, submits nothing, and issues no request afterwards.
C11_Termination == [][C11_Step]_vars /\ (InLoop ~> pc = "done")

\* The loop ended on a no_more_jobs reply that even carried a job.
C11_Witness ==
    /\ pc = "done"
    /\ worker_status = StDone
    /\ response.status = "no_more_jobs"
    /\ job_list # << >>

-----------------------------------------------------------------------------
(* C12 *)

\* Processing the job gives a result that is not null.
Succeeds(job) == ~Fails(job)

C12_State ==
    pc \in {"submit", "submitWait", "submitSleep"}
       => LET done == SelectSeq(job_list, Succeeds)
          IN  /\ Len(results_to_submit) = Len(done)
              /\ \A k \in 1..Len(done) :
                     /\ results_to_submit[k].task_id = done[k].task_id
                     /\ results_to_submit[k].manga_name = done[k].manga_name
                     /\ results_to_submit[k].filename = done[k].filename
                     /\ results_to_submit[k].image_data_b64 # "None"

\* C12: the payload of every submit-batch-results request holds exactly one
\* entry for each task of the most recently fetched batch whose processing
\* gave a non-null result, in batch order, each with that task's own id,
\* group name and filename; it holds no entry for a failed task and none of
\* an earlier batch.
C12_PayloadIsTheBatch == C12_State

\* A submission in flight, retried once, of a batch whose first task failed
\* and whose second gave a result.
C12_Witness ==
    /\ pc = "submitWait"
    /\ submitAttempt = 1
    /\ Len(job_list) = 2
    /\ Fails(job_list[1])
    /\ Succeeds(job_list[2])
    /\ Len(results_to_submit) = 1

-----------------------------------------------------------------------------
(* C19 *)

\* The submission loop of the current batch is running.
Submitting == pc \in {"submit", "submitWait", "submitSleep"}

C19_State ==
    /\ Submitting => /\ results_to_submit # << >>
                     /\ submitAttempt < SubmitAttempts
                     /\ ~submitted_successfully
    /\ submitted_successfully => ~Submitting

C19_Step ==
    \* submitAttempt counts the requests already sent for the batch
    /\ (~Submitting /\ Submitting') => submitAttempt' = 0
    /\ (Submitting /\ Submitting')
          => submitAttempt' = IF pc = "submitSleep" /\ pc' = "submit"
                              THEN submitAttempt + 1
                              ELSE submitAttempt
    /\ SubmitIssued
          => /\ \E i \in 1..Len(job_list) : Succeeds(job_list[i])
             /\ submitAttempt + 1 <= SubmitAttempts
    \* the first success ends the submission of the batch
    /\ (pc = "submitWait" /\ submitted_successfully') => pc' = "poll"
    \* a batch without any result is not submitted
    /\ (pc = "processing" /\ pc' \notin {"process", "processing"}
           /\ \A i \in 1..Len(job_list) : Fails(job_list[i]))
          => /\ pc' \in {"poll", "sleep"}
             /\ (jobIdx' > Len(job_list)) => pc' = "poll"
    /\ (pc \in {"poll", "sleep"}) => ~Submitting'

\* C19: for each fetched batch a submit-batch-results request is sent only
\* if at least one task gave a result, at most 3 times, and never again after
\* the first successful response; when every task of the batch gave a null
\* result nothing is submitted and the loop goes straight to the next poll.
C19_SubmitOnlyResults == C19_State /\ [][C19_Step]_vars

\* An earlier batch was submitted at the second attempt; every task of the
\* batch fetched after it failed and the loop is back at the poll with no
\* request in between.
C19_Witness ==
    /\ pc = "poll"
    /\ submitted_successfully
    /\ submitAttempt = 1
    /\ Len(job_list) = 2
    /\ jobIdx = 3
    /\ \A i \in 1..2 : Fails(job_list[i])
    /\ results_to_submit = << >>
    /\ lastReq.kind = "poll"

-----------------------------------------------------------------------------
(* C20 *)

\* A parsed reply that is neither no_more_jobs, nor paused, nor a new_batch
\* with jobs: an unknown or missing status, or new_batch with an empty list.
Unhandled(resp) ==
    /\ Parsed(resp)
    /\ resp.status \notin {"no_more_jobs", "paused"}
    /\ ~(resp.status = "new_batch" /\ resp.jobs # << >>)

C20_Step ==
    /\ (PollAnswered /\ Unhandled(response'))
          => /\ pc' = "sleep"
             /\ delay' = "5"
             /\ UNCHANGED << jobIdx, results_to_submit, lastReq >>
    /\ (pc = "sleep" /\ pc' # "sleep") => (pc' = "poll" /\ UNCHANGED lastReq)
    /\ (pc = "poll" /\ pc' # "poll") => PollIssued

\* C20: a 2xx get-batch-jobs reply whose status is none of no_more_jobs and
\* paused and is not new_batch with a non-empty job list (an unknown or
\* missing status, or new_batch with an empty list) causes no processing, no
\* submission and no termination: the worker waits the fixed delay of 5
\* seconds and polls again.
C20_UnhandledReply == [][C20_Step]_vars

\* The worker sleeps the fixed 5 seconds after a new_batch reply without
\* jobs, although a retry delay is configured.
C20_Witness ==
    /\ pc = "sleep"
    /\ delay = "5"
    /\ Parsed(response)
    /\ response.status = "new_batch"
    /\ response.jobs = << >>
    /\ "WORKER_RETRY_DELAY" \in worker_config.keys

-----------------------------------------------------------------------------
(* Vocabulary of the claims about the classifier *)

\* The thresholds and the image the masks of the state are classified with.
Params  == batch_config.BALLOON_FILTER_PARAMS
ImgH    == image_shape[1]
ImgW    == image_shape[2]
ImgArea == ImgH * ImgW

\* The masks of the state have been classified.
Classified == bpc \in {"filtered", "done"}

\* The five filters, each taken by itself.
PassesArea(mk) ==
    /\ Params.min_area_ratio[1] * ImgArea < mk.sum * Params.min_area_ratio[2]
    /\ mk.sum * Params.max_area_ratio[2] < Params.max_area_ratio[1] * ImgArea

PassesAspect(mk) ==
    /\ mk.h # 0
    /\ Params.min_aspect_ratio[1] * mk.h < mk.w * Params.min_aspect_ratio[2]
    /\ mk.w * Params.max_aspect_ratio[2] < Params.max_aspect_ratio[1] * mk.h

PassesBorder(mk) ==
    /\ mk.x >= Params.border_margin
    /\ mk.y >= Params.border_margin
    /\ mk.x + mk.w <= ImgW - Params.border_margin
    /\ mk.y + mk.h <= ImgH - Params.border_margin

PassesBrightness(mk) == mk.mean >= Params.min_avg_color

\* The first contour, in discovery order, that no contour exceeds in area.
Biggest(mk) ==
    LET big == { i \in 1..Len(mk.contours) :
                   \A j \in 1..Len(mk.contours) :
                      mk.contours[j].area2 <= mk.contours[i].area2 }
    IN  mk.contours[CHOOSE i \in big : \A j \in big : i <= j]

\* contour_area / hull_area >= min_solidity for the contour c.
Solid(c) ==
    /\ c.area2 # 0
    /\ c.hull2 # 0
    /\ c.area2 * Params.min_solidity[2] >= Params.min_solidity[1] * c.hull2

PassesSolidity(mk) == mk.contours # << >> /\ Solid(Biggest(mk))

\* The first of the five filters, in their order, that the mask fails.
FirstFailing(mk) ==
    IF ~PassesArea(mk) THEN "area"
    ELSE IF ~PassesAspect(mk) THEN "aspect"
    ELSE IF ~PassesBorder(mk) THEN "border"
    ELSE IF ~PassesBrightness(mk) THEN "brightness"
    ELSE IF ~PassesSolidity(mk) THEN "solidity"
    ELSE "end"

\* The mask passes all five filters.
IsBalloon(mk) == FirstFailing(mk) = "end"

-----------------------------------------------------------------------------
(* C13 *)

\* C13: the classifier applies the five filters in the order area, aspect
\* ratio, border margin, brightness, solidity: it returns true exactly when
\* the mask passes all five, and otherwise returns false at the first filter
\* the mask fails, whatever the later filters would give.
C13_FiltersInOrder ==
    Classified
       => \A i \in 1..Len(masks) :
             /\ verdicts[i].valid = IsBalloon(masks[i])
             /\ verdicts[i].at = FirstFailing(masks[i])

\* A mask rejected at the border margin that is too dark as well, although
\* its solidity would pass.
C13_Witness ==
    /\ Classified
    /\ Len(masks) = 1
    /\ ~verdicts[1].valid
    /\ verdicts[1].at = "border"
    /\ ~PassesBrightness(masks[1])
    /\ PassesSolidity(masks[1])

-----------------------------------------------------------------------------
(* C14 *)

\* The bounding box touches an image edge or lies within border_margin
\* pixels of one: on some side the gap is at most border_margin.
WithinMargin(mk) ==
    \/ mk.x <= Params.border_margin
    \/ mk.y <= Params.border_margin
    \/ ImgW - (mk.x + mk.w) <= Params.border_margin
    \/ ImgH - (mk.y + mk.h) <= Params.border_margin

\* On some side the gap between the bounding box and the image edge is
\* smaller than border_margin.
InsideMargin(mk) ==
    \/ mk.x < Params.border_margin
    \/ mk.y < Params.border_margin
    \/ ImgW - (mk.x + mk.w) < Params.border_margin
    \/ ImgH - (mk.y + mk.h) < Params.border_margin

\* C14 as stated: for every image size and every border_margin >= 0, a mask
\* whose bounding box touches an image edge or lies within border_margin
\* pixels of any of the four edges is rejected, whatever its area and aspect
\* ratio.
C14_EdgeMasksRejected ==
    Classified
       => \A i \in 1..Len(masks) :
             (Params.border_margin >= 0 /\ WithinMargin(masks[i]))
                => ~verdicts[i].valid

\* C14 amended: for every image size and every border_margin >= 0, a mask
\* whose bounding box comes closer than border_margin pixels to any of the
\* four edges is rejected, whatever its area and aspect ratio; a bounding box
\* exactly border_margin pixels from an edge (touching it when border_margin
\* is 0) is not rejected by the border filter.
C14_InsideMarginRejected ==
    Classified
       => \A i \in 1..Len(masks) :
             /\ (Params.border_margin >= 0 /\ InsideMargin(masks[i]))
                   => ~verdicts[i].valid
             /\ (Params.border_margin >= 0 /\ ~InsideMargin(masks[i]))
                   => verdicts[i].at # "border"

\* A mask of valid area and aspect ratio, far enough from the left and the
\* top edge, is rejected for its right side.
C14_Witness ==
    /\ Classified
    /\ Len(masks) = 1
    /\ Params.border_margin >= 1
    /\ PassesArea(masks[1])
    /\ PassesAspect(masks[1])
    /\ masks[1].x >= Params.border_margin
    /\ masks[1].y >= Params.border_margin
    /\ ImgW - (masks[1].x + masks[1].w) < Params.border_margin
    /\ ~verdicts[1].valid
    /\ verdicts[1].at = "border"

-----------------------------------------------------------------------------
(* C15 *)

\* C15: for every image and every parameter set a mask without pixels, and
\* any mask whose bounding box has height 0, is rejected: by the area filter
\* when min_area_ratio is not negative, and at the latest by the test of the
\* height, before the later filters.
C15_EmptyMaskRejected ==
    Classified
       => \A i \in 1..Len(masks) :
             (masks[i].sum = 0 \/ masks[i].h = 0)
                => /\ ~verdicts[i].valid
                   /\ verdicts[i].at \in {"area", "aspect"}
                   /\ Params.min_area_ratio[1] >= 0 => verdicts[i].at = "area"

\* A mask without pixels that a negative min_area_ratio lets through the
\* area filter is rejected for the height of its bounding box.
C15_Witness ==
    /\ Classified
    /\ Len(masks) = 1
    /\ masks[1].sum = 0
    /\ masks[1].h = 0
    /\ PassesArea(masks[1])
    /\ ~verdicts[1].valid
    /\ verdicts[1].at = "aspect"

-----------------------------------------------------------------------------
(* C16 *)

\* The mask passes the four filters before the solidity filter.
ReachesSolidity(mk) ==
    PassesArea(mk) /\ PassesAspect(mk) /\ PassesBorder(mk) /\ PassesBrightness(mk)

\* C16: a mask that passed the first four filters is rejected when no
\* contour is found or when the area of its largest contour, or of that
\* contour's hull, is 0; otherwise it is accepted exactly when contour area /
\* hull area >= min_solidity.  So a region whose contour area equals its hull
\* area is accepted for every min_solidity <= 1, and of several contours only
\* the largest counts.
C16_Solidity ==
    Classified
       => \A i \in 1..Len(masks) :
             ReachesSolidity(masks[i])
                => /\ masks[i].contours = << >> => ~verdicts[i].valid
                   /\ masks[i].contours # << >>
                         => LET c == Biggest(masks[i])
                            IN  /\ (c.area2 = 0 \/ c.hull2 = 0) => ~verdicts[i].valid
                                /\ (c.area2 # 0 /\ c.hull2 # 0)
                                      => (verdicts[i].valid
                                            <=> c.area2 * Params.min_solidity[2]
                                                  >= Params.min_solidity[1] * c.hull2)
                                /\ (c.area2 # 0 /\ c.area2 = c.hull2
                                      /\ Params.min_solidity[1] <= Params.min_solidity[2])
                                      => verdicts[i].valid

\* A mask of two components is accepted for its second, larger one, the
\* first being degenerate, under a min_solidity of exactly 1.
C16_Witness ==
    /\ Classified
    /\ Len(masks) = 1
    /\ Len(masks[1].contours) = 2
    /\ masks[1].contours[1].area2 = 0
    /\ masks[1].contours[2].area2 = masks[1].contours[2].hull2
    /\ Params.min_solidity = << 1, 1 >>
    /\ verdicts[1].valid

-----------------------------------------------------------------------------
(* C17 *)

\* The pixel count equals min_area_ratio or max_area_ratio times the area of
\* the image.
AreaOnBound(mk) ==
    \/ mk.sum * Params.min_area_ratio[2] = Params.min_area_ratio[1] * ImgArea
    \/ mk.sum * Params.max_area_ratio[2] = Params.max_area_ratio[1] * ImgArea

\* width / height equals the min or the max aspect ratio.
AspectOnBound(mk) ==
    /\ mk.h # 0
    /\ \/ mk.w * Params.min_aspect_ratio[2] = Params.min_aspect_ratio[1] * mk.h
       \/ mk.w * Params.max_aspect_ratio[2] = Params.max_aspect_ratio[1] * mk.h

\* C17: the area and the aspect-ratio filter are strict: a mask whose pixel
\* count equals min_area_ratio * image_area or max_area_ratio * image_area,
\* or whose width / height equals the min or the max aspect ratio, is
\* rejected.  The brightness filter rejects only a mean intensity below
\* min_avg_color: a mean equal to min_avg_color passes it.
C17_Boundaries ==
    Classified
       => \A i \in 1..Len(masks) :
             /\ AreaOnBound(masks[i])
                   => (~verdicts[i].valid /\ verdicts[i].at = "area")
             /\ (PassesArea(masks[i]) /\ AspectOnBound(masks[i]))
                   => (~verdicts[i].valid /\ verdicts[i].at = "aspect")
             /\ verdicts[i].at = "brightness"
                   => masks[i].mean < Params.min_avg_color
             /\ (PassesArea(masks[i]) /\ PassesAspect(masks[i])
                   /\ PassesBorder(masks[i])
                   /\ masks[i].mean = Params.min_avg_color)
                   => verdicts[i].at \in {"solidity", "end"}

\* A mask whose mean intensity equals a positive min_avg_color is accepted.
C17_Witness ==
    /\ Classified
    /\ Len(masks) = 1
    /\ Params.min_avg_color > 0
    /\ masks[1].mean = Params.min_avg_color
    /\ verdicts[1].valid

-----------------------------------------------------------------------------
(* C18 *)

C18_State ==
    bpc = "done"
       => LET balloons == SelectSeq(masks, IsBalloon)
          IN  IF batch_config.GENERATE_YOLO_ANNOTATIONS /\ balloons # << >>
              THEN /\ Len(annotation_text) = Len(balloons)
                   /\ \A k \in 1..Len(balloons) :
                         annotation_text[k]
                            = AnnotationLine(balloons[k], image_shape,
                                             batch_config.YOLO_CLASS_ID)
              ELSE annotation_text = << >>

\* C18: the annotation block of an image has exactly one line for each
\* accepted mask, in the order in which the segmentation returned the masks:
\* a rejected mask gives no line and does not change the order of the others.
\* The block is empty when no mask is accepted or when the generation of
\* annotations is disabled.
C18_AnnotationBlock == C18_State

\* Of two masks the first is rejected and the second accepted: the block is
\* the one line of the second.
C18_Witness ==
    /\ bpc = "done"
    /\ batch_config.GENERATE_YOLO_ANNOTATIONS
    /\ Len(masks) = 2
    /\ ~IsBalloon(masks[1])
    /\ IsBalloon(masks[2])
    /\ Len(annotation_text) = 1
    /\ annotation_text[1].x_center_norm # Fixed6(2 * masks[1].x + masks[1].w, 2 * ImgW)

====
